---- MODULE Spec2Model ----
(***************************************************************************)
(* A model of streamlit_app.py, the Spot It! card generator.              *)
(*                                                                         *)
(*  - generate_spot_it_deck (lines 38-50) is modelled loop iteration by   *)
(*    loop iteration (specification SpecDeck).                            *)
(*  - draw_card_with_images (lines 52-94) is modelled one pasted symbol   *)
(*    at a time (specification SpecDraw).                                 *)
(*  - the script itself (lines 22-36 and 96-233), which Streamlit runs    *)
(*    again from the top on every interaction while st.session_state      *)
(*    persists, is modelled as a sequence of reruns (specification Spec). *)
(*                                                                         *)
(* Pixel coordinates can be halves in the source (obj["width"] / 2 on     *)
(* line 197, size_px / 2 on line 92).  Every coordinate of a position is  *)
(* therefore held in HALF PIXELS: the model's value x2 stands for the     *)
(* source's x = x2 / 2.  Sizes, and the integer corner at which an image  *)
(* is pasted, are held in pixels.                                         *)
(***************************************************************************)
EXTENDS Integers, Sequences, FiniteSets, TLC

\* ------------------------------------------------------------ constants
CARD_SIZE == 500
MARGIN == 20
SYMBOL_SIZE_DEFAULT == 80
\* st.slider("Symbols per card (n):", 3, 6, 4)
SLIDER_MIN == 3
SLIDER_MAX == 6

\* ------------------------------------------------------------ bounds
\* generate_spot_it_deck is called with every n of 0..MaxN
MaxN == 8
\* the script's slider is moved within SLIDER_MIN..MaxSlider
MaxSlider == 4
\* the script is run at most MaxRuns times
MaxRuns == 2
\* at most MaxEdits canvas results carry data
MaxEdits == 2
\* only the canvases of the first MaxCanvas cards ever return data
MaxCanvas == 2

VARIABLES
    \* generate_spot_it_deck's frame
    arg_n,          \* the argument n
    loop_i,         \* i of the loop being run
    loop_j,         \* j of the inner grid loop
    gen_cards,      \* the local list cards
    gen_pc,         \* "pencil" (40-42), "grid" (43-49), "returned" (50)
    \* draw_card_with_images' frame
    card_symbols,   \* the argument card_symbols
    draw_images,    \* the argument images
    positions_none, \* positions is None or sizes is None (line 65)
    positions,      \* positions: a list of [x, y], in half pixels
    sizes,          \* sizes: a list of size_px, in pixels
    draw_idx,       \* idx of the loop of line 78
    pasted,         \* the img.paste calls made so far (line 92), in order
    draw_pc,        \* "idle", "start" (61-65), "paste" (78-92), "returned" (94),
                    \* "raised" (an IndexError left the function)
    \* the script: what one run holds, and the session state that outlives it
    mode,           \* st.radio: "Easy" or "Advanced" (line 22)
    slider_n,       \* n of the slider (line 25)
    uploaded_files, \* len(uploaded_files), 0 for none (line 29)
    deck,           \* deck (line 97), <<>> while none is generated
    images,         \* images (lines 100-103)
    cards,          \* cards (lines 107, 129): the rendered card images
    card_idx,       \* card_idx of the loop of line 136
    zip,            \* the entries written to the ZIP (lines 118-121, 225-228)
    session_positions,  \* st.session_state.positions: "positions_<c>" -> list
    session_sizes,      \* st.session_state.sizes: "sizes_<c>" -> list
    pc,             \* "idle", "loop" (136-219), "done", "crashed" (IndexError)
    runs,           \* the runs of the script so far
    edits           \* the canvas results with data so far

genVars == <<arg_n, loop_i, loop_j, gen_cards, gen_pc>>

drawVars == <<card_symbols, draw_images, positions_none, positions, sizes,
              draw_idx, pasted, draw_pc>>

runVars == <<mode, slider_n, uploaded_files, deck, images>>

appVars == <<runVars, cards, card_idx, zip, session_positions, session_sizes,
             pc, runs, edits>>

vars == <<genVars, drawVars, appVars>>

\* ------------------------------------------------------------ helpers
Max(a, b) == IF a >= b THEN a ELSE b

Min(a, b) == IF a <= b THEN a ELSE b

\* line 26: total_symbols = n**2 - n + 1
total_symbols_of(n) == n * n - n + 1

\* ------------------------------------------------- generate_spot_it_deck
\* PencilCard with the "+ 1" of line 41 left out
PencilCard_NoOffset(n, i) ==
    <<0>> \o [jj \in 1..(n - 1) |-> i * (n - 1) + (jj - 1)]

\* line 41: card = [0] + [i * (n - 1) + j + 1 for j in range(n - 1)]
PencilCard(n, i) ==
    <<0>> \o [jj \in 1..(n - 1) |-> i * (n - 1) + (jj - 1) + 1]

\* GridVal with the block base n of line 47 written n - 1
GridVal_BaseQ(n, i, j, k) == (n - 1) + (n - 1) * k + ((i * k + j) % (n - 1))

\* GridVal with the slope term i * k of line 47 left out
GridVal_NoSlope(n, i, j, k) == n + (n - 1) * k + (j % (n - 1))

\* line 47: val = n + (n - 1) * k + ((i * k + j) % (n - 1))
GridVal(n, i, j, k) == n + (n - 1) * k + ((i * k + j) % (n - 1))

\* GridCard started with [i] instead of [i + 1] (line 45)
GridCard_FirstI(n, i, j) ==
    <<i>> \o [kk \in 1..(n - 1) |-> GridVal(n, i, j, kk - 1)]

\* lines 45-48: card = [i + 1], then one val appended for each k in range(n - 1)
GridCard(n, i, j) ==
    <<i + 1>> \o [kk \in 1..(n - 1) |-> GridVal(n, i, j, kk - 1)]

\* lines 38-50 as one value: the pencil cards, then the grid cards in (i, j) order
generate_spot_it_deck(n) ==
    LET q == n - 1
        pencil == [c \in 1..n |-> PencilCard(n, c - 1)]
        grid == IF q <= 0 THEN <<>>
                ELSE [c \in 1..(q * q) |-> GridCard(n, (c - 1) \div q, (c - 1) % q)]
    IN  pencil \o grid

\* the call: cards = []
GenInit ==
    /\ arg_n \in 0..MaxN
    /\ loop_i = 0
    /\ loop_j = 0
    /\ gen_cards = <<>>
    /\ gen_pc = "pencil"

\* no call of generate_spot_it_deck is being followed step by step
GenIdle ==
    /\ arg_n = 0
    /\ loop_i = 0
    /\ loop_j = 0
    /\ gen_cards = <<>>
    /\ gen_pc = "idle"

\* lines 40-42: one iteration of for i in range(n)
PencilLoop ==
    /\ gen_pc = "pencil"
    /\ loop_i < arg_n
    /\ gen_cards' = Append(gen_cards, PencilCard(arg_n, loop_i))
    /\ loop_i' = loop_i + 1
    /\ UNCHANGED <<arg_n, loop_j, gen_pc>>
    /\ UNCHANGED <<drawVars, appVars>>

\* line 43: range(n) is exhausted, the grid loops start
PencilDone ==
    /\ gen_pc = "pencil"
    /\ loop_i >= arg_n
    /\ gen_pc' = "grid"
    /\ loop_i' = 0
    /\ loop_j' = 0
    /\ UNCHANGED <<arg_n, gen_cards>>
    /\ UNCHANGED <<drawVars, appVars>>

\* lines 44-49: one iteration of for j in range(n - 1), inside for i in range(n - 1)
GridLoop ==
    /\ gen_pc = "grid"
    /\ loop_i < arg_n - 1
    /\ loop_j < arg_n - 1
    /\ gen_cards' = Append(gen_cards, GridCard(arg_n, loop_i, loop_j))
    /\ IF loop_j + 1 < arg_n - 1
          THEN loop_j' = loop_j + 1 /\ loop_i' = loop_i
          ELSE loop_j' = 0 /\ loop_i' = loop_i + 1
    /\ UNCHANGED <<arg_n, gen_pc>>
    /\ UNCHANGED <<drawVars, appVars>>

\* line 50: return cards
GenReturn ==
    /\ gen_pc = "grid"
    /\ loop_i >= arg_n - 1
    /\ gen_pc' = "returned"
    /\ UNCHANGED <<arg_n, loop_i, loop_j, gen_cards>>
    /\ UNCHANGED <<drawVars, appVars>>

NextDeck == PencilLoop \/ PencilDone \/ GridLoop \/ GenReturn

\* ------------------------------------------------- draw_card_with_images
\* line 61: center = CARD_SIZE // 2
center == CARD_SIZE \div 2

\* line 62: radius = (CARD_SIZE - 2 * MARGIN) // 2
radius == (CARD_SIZE - 2 * MARGIN) \div 2

\* int(v) of a value held in halves: Python's int() truncates towards zero
IntOfHalves(v2) == IF v2 >= 0 THEN v2 \div 2 ELSE -((-v2) \div 2)

\* lines 69-73: <<int(190 * cos(i * angle_step)), int(190 * sin(i * angle_step))>>
\* with angle_step = 2 * math.pi / count and 190 = radius - SYMBOL_SIZE_DEFAULT // 2,
\* as IEEE double arithmetic evaluates them (for instance cos(2*pi/3) is
\* -0.4999999999999998, so int(190 * cos) is -94 and not -95).
ANGULAR_OFFSETS ==
    [c \in 3..8 |->
        CASE c = 3 -> << <<190, 0>>, <<-94, 164>>, <<-95, -164>> >>
          [] c = 4 -> << <<190, 0>>, <<0, 190>>, <<-190, 0>>, <<0, -190>> >>
          [] c = 5 -> << <<190, 0>>, <<58, 180>>, <<-153, 111>>, <<-153, -111>>,
                         <<58, -180>> >>
          [] c = 6 -> << <<190, 0>>, <<95, 164>>, <<-94, 164>>, <<-190, 0>>,
                         <<-95, -164>>, <<94, -164>> >>
          [] c = 7 -> << <<190, 0>>, <<118, 148>>, <<-42, 185>>, <<-171, 82>>,
                         <<-171, -82>>, <<-42, -185>>, <<118, -148>> >>
          [] c = 8 -> << <<190, 0>>, <<134, 134>>, <<0, 190>>, <<-134, 134>>,
                         <<-190, 0>>, <<-134, -134>>, <<0, -190>>, <<134, -134>> >>]

\* lines 66-74: positions.append([x, y]) for i in range(count), in half pixels
DefaultPositions(count) ==
    [i \in 1..count |-> <<2 * (center + ANGULAR_OFFSETS[count][i][1]),
                          2 * (center + ANGULAR_OFFSETS[count][i][2])>>]

\* lines 67-75: sizes.append(SYMBOL_SIZE_DEFAULT) for i in range(count)
DefaultSizes(count) == [i \in 1..count |-> SYMBOL_SIZE_DEFAULT]

\* lines 85-90 with the min(right_bound, .) left out
Clamp_NoUpper(v2, size_px) ==
    Max(2 * (center - radius + size_px \div 2), v2)

\* lines 85-90, one axis: max(left_bound, min(right_bound, x)) with
\* left_bound = center - radius + size_px // 2 and
\* right_bound = center + radius - size_px // 2; in half pixels
Clamp(v2, size_px) ==
    LET left_bound2 == 2 * (center - radius + size_px \div 2)
        right_bound2 == 2 * (center + radius - size_px \div 2)
    IN  Max(left_bound2, Min(right_bound2, v2))

\* line 92: the box (int(x - size_px / 2), int(y - size_px / 2)) at which im,
\* resized to (size_px, size_px), is pasted
Paste(sym_id, imgs, pos, size_px) ==
    [sym |-> sym_id,
     im |-> imgs[sym_id + 1],
     size |-> size_px,
     left |-> IntOfHalves(Clamp(pos[1], size_px) - size_px),
     top |-> IntOfHalves(Clamp(pos[2], size_px) - size_px)]

\* lines 79-82: images[sym_id], sizes[idx] or positions[idx] raises IndexError
LookupRaises(syms, imgs, pos, szs, idx) ==
    \/ syms[idx] + 1 \notin DOMAIN imgs
    \/ idx \notin DOMAIN szs
    \/ idx \notin DOMAIN pos

\* the loop of lines 78-92 raises at some idx
DrawRaises(syms, imgs, pos, szs) ==
    \E idx \in DOMAIN syms : LookupRaises(syms, imgs, pos, szs, idx)

\* lines 52-94 with positions and sizes given, as one value: the pastes that
\* make up the returned image
draw_card_with_images(syms, imgs, pos, szs) ==
    [idx \in DOMAIN syms |-> Paste(syms[idx], imgs, pos[idx], szs[idx])]

\* lines 52-94 with positions = None
draw_card_default(syms, imgs) ==
    draw_card_with_images(syms, imgs, DefaultPositions(Len(syms)),
                          DefaultSizes(Len(syms)))

\* lines 100-103: images = the first total_symbols uploaded files, opened
LoadImages(uploaded, total) == [k \in 1..Min(uploaded, total) |-> k - 1]

\* candidate centre coordinates a caller passes, in half pixels: outside the
\* canvas bounds, on the clamp bounds for size 80, on a half pixel, the centre
CallerCoords2 == <<0, 120, 121, 500, 879, 880, 1000>>

\* symbol sizes a caller passes: 1, the default, odd, the diameter, beyond it
CallerSizes == <<1, 80, 81, 120, 460, 461, 500>>

\* layouts a caller passes for a card of count symbols: entry i takes the
\* (a + i)-th, (b + i)-th coordinate and (c + i)-th size of the lists above,
\* and the lists hold len entries
CallerLayouts(len) ==
    LET nc == Len(CallerCoords2)
        ns == Len(CallerSizes)
    IN  {[pos |-> [i \in 1..len |-> <<CallerCoords2[((a + i) % nc) + 1],
                                     CallerCoords2[((b + i) % nc) + 1]>>],
          szs |-> [i \in 1..len |-> CallerSizes[((c + i) % ns) + 1]]] :
            a \in 0..(nc - 1), b \in 0..(nc - 1), c \in 0..(ns - 1)}

\* the call: a card of a deck the slider allows, with the deck's images, and
\* either no layout or a layout of the card's length or one entry short
DrawInit ==
    /\ \E n \in SLIDER_MIN..SLIDER_MAX :
          /\ card_symbols \in {generate_spot_it_deck(n)[1],
                               generate_spot_it_deck(n)[total_symbols_of(n)]}
          /\ draw_images = LoadImages(total_symbols_of(n), total_symbols_of(n))
    /\ \/ positions_none = TRUE /\ positions = <<>> /\ sizes = <<>>
       \/ /\ positions_none = FALSE
          /\ \E len \in {Len(card_symbols) - 1, Len(card_symbols)} :
                \E lay \in CallerLayouts(len) :
                    positions = lay.pos /\ sizes = lay.szs
    /\ draw_idx = 0
    /\ pasted = <<>>
    /\ draw_pc = "start"

\* no call of draw_card_with_images is being followed step by step
DrawIdle ==
    /\ card_symbols = <<>>
    /\ draw_images = <<>>
    /\ positions_none = FALSE
    /\ positions = <<>>
    /\ sizes = <<>>
    /\ draw_idx = 0
    /\ pasted = <<>>
    /\ draw_pc = "idle"

\* lines 65-75: positions is None or sizes is None, the angular layout is built
DrawDefaults ==
    /\ draw_pc = "start"
    /\ positions_none
    /\ positions' = DefaultPositions(Len(card_symbols))
    /\ sizes' = DefaultSizes(Len(card_symbols))
    /\ positions_none' = FALSE
    /\ draw_pc' = "paste"
    /\ UNCHANGED <<card_symbols, draw_images, draw_idx, pasted>>
    /\ UNCHANGED <<genVars, appVars>>

\* line 65 is false: the caller's positions and sizes are used
DrawGiven ==
    /\ draw_pc = "start"
    /\ ~positions_none
    /\ draw_pc' = "paste"
    /\ UNCHANGED <<card_symbols, draw_images, positions_none, positions, sizes,
                   draw_idx, pasted>>
    /\ UNCHANGED <<genVars, appVars>>

\* lines 78-92: one iteration of for idx, sym_id in enumerate(card_symbols)
DrawSymbol ==
    /\ draw_pc = "paste"
    /\ draw_idx < Len(card_symbols)
    /\ ~LookupRaises(card_symbols, draw_images, positions, sizes, draw_idx + 1)
    /\ pasted' = Append(pasted, Paste(card_symbols[draw_idx + 1], draw_images,
                                      positions[draw_idx + 1], sizes[draw_idx + 1]))
    /\ draw_idx' = draw_idx + 1
    /\ UNCHANGED <<card_symbols, draw_images, positions_none, positions, sizes,
                   draw_pc>>
    /\ UNCHANGED <<genVars, appVars>>

\* lines 79-82: a lookup of the iteration raises IndexError
DrawRaise ==
    /\ draw_pc = "paste"
    /\ draw_idx < Len(card_symbols)
    /\ LookupRaises(card_symbols, draw_images, positions, sizes, draw_idx + 1)
    /\ draw_pc' = "raised"
    /\ UNCHANGED <<card_symbols, draw_images, positions_none, positions, sizes,
                   draw_idx, pasted>>
    /\ UNCHANGED <<genVars, appVars>>

\* line 94: return img
DrawReturn ==
    /\ draw_pc = "paste"
    /\ draw_idx >= Len(card_symbols)
    /\ draw_pc' = "returned"
    /\ UNCHANGED <<card_symbols, draw_images, positions_none, positions, sizes,
                   draw_idx, pasted>>
    /\ UNCHANGED <<genVars, appVars>>

NextDraw == DrawDefaults \/ DrawGiven \/ DrawSymbol \/ DrawRaise \/ DrawReturn
\* ------------------------------------------------- the script
\* line 96: uploaded_files and len(uploaded_files) >= total_symbols, weakened by one
Gate_OffByOne(uploaded, total) == uploaded > 0 /\ uploaded >= total - 1

\* line 96: uploaded_files and len(uploaded_files) >= total_symbols
Gate(uploaded, total) == uploaded > 0 /\ uploaded >= total

\* the numbers of files a user uploads: none, one too few, enough, one more
UploadCounts(total) == {0, total - 1, total, total + 1}

\* lines 108-112 and 118-121: the prefix of cards rendered before a card raises
RenderedPrefix(d, imgs) ==
    LET bad == {c \in DOMAIN d :
                    DrawRaises(d[c], imgs, DefaultPositions(Len(d[c])),
                               DefaultSizes(Len(d[c])))}
        last == IF bad = {} THEN Len(d)
                ELSE (CHOOSE c \in bad : \A c2 \in bad : c <= c2) - 1
    IN  [c \in 1..last |-> draw_card_default(d[c], imgs)]

\* lines 118-121 and 225-228: zipf.writestr(f"card_{i+1}.png", ...) for each
\* i, card_img of enumerate(cards); name is the i + 1 of the file name
ZipEntries(cs) == [i \in DOMAIN cs |-> [name |-> i, img |-> cs[i]]]

\* lines 142-157: the layout of card_idx after "if key_pos not in ...positions"
InitLayout(stored, c, fresh) ==
    IF c \in DOMAIN stored THEN stored
    ELSE [k \in DOMAIN stored \cup {c} |-> IF k = c THEN fresh ELSE stored[k]]

\* st.session_state.positions[key_pos] = new_positions (lines 213-214)
Store(stored, c, value) ==
    [k \in DOMAIN stored \cup {c} |-> IF k = c THEN value ELSE stored[k]]

\* lines 172-183: the objects handed to st_canvas; left and top in half pixels
CanvasObjects(syms, imgs, pos, szs) ==
    [i \in DOMAIN syms |->
        [left2 |-> pos[i][1] - 2 * (szs[i] \div 2),
         top2 |-> pos[i][2] - 2 * (szs[i] \div 2),
         width |-> szs[i],
         height |-> szs[i],
         src |-> imgs[syms[i] + 1]]]

\* lines 197-208, one axis: the centre obj[left] + w / 2 clamped to
\* [center - radius + w / 2, center + radius - w / 2]; in half pixels
CanvasClamp(left2, w) ==
    Max(2 * (center - radius) + w, Min(2 * (center + radius) - w, left2 + w))

\* lines 195-210: new_positions
NewPositions(objects) ==
    [i \in DOMAIN objects |-> <<CanvasClamp(objects[i].left2, objects[i].width),
                                CanvasClamp(objects[i].top2, objects[i].height)>>]

\* line 211: new_sizes.append(int(max(w, h)))
NewSizes(objects) ==
    [i \in DOMAIN objects |-> Max(objects[i].width, objects[i].height)]

\* where a user drops and how a user resizes an object: into the top-left
\* corner with an odd size, and towards the bottom-right, wider than high
UserObjects ==
    {[left2 |-> 0, top2 |-> 0, width |-> 81, height |-> 81],
     [left2 |-> 800, top2 |-> 801, width |-> 120, height |-> 60]}

\* what st_canvas returns for the objects it was given: no json_data, or
\* json_data whose objects are the ones given, or those with the first one
\* moved and resized by the user, or those with the last one deleted
CanvasResults(objs) ==
    {[has_data |-> FALSE, objects |-> <<>>]}
    \cup {[has_data |-> TRUE, objects |-> o] :
            o \in {objs, SubSeq(objs, 1, Len(objs) - 1)}
                  \cup {[objs EXCEPT ![1] = [left2 |-> u.left2, top2 |-> u.top2,
                                             width |-> u.width, height |-> u.height,
                                             src |-> objs[1].src]] :
                            u \in UserObjects}}

\* the slider's values in the runs followed
SliderValues == SLIDER_MIN..Min(SLIDER_MAX, MaxSlider)

\* line 97, tabulated: deck = generate_spot_it_deck(n) for each n of the slider
DeckOf == [n \in SliderValues |-> generate_spot_it_deck(n)]

\* lines 100-103, tabulated: images for each n and each number of uploads
ImagesOf ==
    [n \in SliderValues |->
        [uploaded \in UploadCounts(total_symbols_of(n)) |->
            LoadImages(uploaded, total_symbols_of(n))]]

\* lines 107-112, tabulated: cards of Easy mode for each n and number of uploads
EasyCardsOf ==
    [n \in SliderValues |->
        [uploaded \in UploadCounts(total_symbols_of(n)) |->
            RenderedPrefix(DeckOf[n], ImagesOf[n][uploaded])]]

\* before the first run: nothing uploaded, an empty session state
AppInit ==
    /\ mode = "Easy"
    /\ slider_n = 4
    /\ uploaded_files = 0
    /\ deck = <<>>
    /\ images = <<>>
    /\ cards = <<>>
    /\ card_idx = 0
    /\ zip = <<>>
    /\ session_positions = <<>>
    /\ session_sizes = <<>>
    /\ pc = "idle"
    /\ runs = 0
    /\ edits = 0

\* the script is not being run
AppIdle == AppInit

\* a run of the script begins: the widgets of lines 22-33 return their values
RunStarts(m, n, uploaded) ==
    /\ pc \in {"idle", "done", "crashed"}
    /\ runs < MaxRuns
    /\ runs' = runs + 1
    /\ mode' = m
    /\ slider_n' = n
    /\ uploaded_files' = uploaded
    /\ card_idx' = 0

\* lines 96, 232-233: too few images: st.info, and nothing is generated
RunInsufficient ==
    \E m \in {"Easy", "Advanced"}, n \in SLIDER_MIN..Min(SLIDER_MAX, MaxSlider) :
      \E uploaded \in UploadCounts(total_symbols_of(n)) :
        /\ RunStarts(m, n, uploaded)
        /\ ~Gate(uploaded, total_symbols_of(n))
        /\ deck' = <<>>
        /\ images' = <<>>
        /\ cards' = <<>>
        /\ zip' = <<>>
        /\ pc' = "done"
        /\ UNCHANGED <<session_positions, session_sizes, edits>>
        /\ UNCHANGED <<genVars, drawVars>>

\* lines 96-123: a run in Easy mode, the export button clicked or not
RunEasy ==
    \E n \in SliderValues, click \in BOOLEAN :
      \E uploaded \in UploadCounts(total_symbols_of(n)) :
        LET d == DeckOf[n]
            imgs == ImagesOf[n][uploaded]
            rendered == EasyCardsOf[n][uploaded]
        IN  /\ RunStarts("Easy", n, uploaded)
            /\ Gate(uploaded, total_symbols_of(n))
            /\ deck' = d
            /\ images' = imgs
            /\ cards' = rendered
            /\ IF Len(rendered) < Len(d)
                  THEN zip' = <<>> /\ pc' = "crashed"
                  ELSE /\ zip' = IF click THEN ZipEntries(rendered) ELSE <<>>
                       /\ pc' = "done"
            /\ UNCHANGED <<session_positions, session_sizes, edits>>
            /\ UNCHANGED <<genVars, drawVars>>

\* lines 96-134: a run in Advanced mode reaches the loop over the deck
RunAdvanced ==
    \E n \in SliderValues :
      \E uploaded \in UploadCounts(total_symbols_of(n)) :
        /\ RunStarts("Advanced", n, uploaded)
        /\ Gate(uploaded, total_symbols_of(n))
        /\ deck' = DeckOf[n]
        /\ images' = ImagesOf[n][uploaded]
        /\ cards' = <<>>
        /\ zip' = <<>>
        /\ pc' = "loop"
        /\ UNCHANGED <<session_positions, session_sizes, edits>>
        /\ UNCHANGED <<genVars, drawVars>>

\* the layout of card card_idx once lines 142-157 have run
LayoutPositions ==
    InitLayout(session_positions, card_idx, DefaultPositions(Len(deck[card_idx + 1])))

\* line 157 runs under the test of line 142, on the key of positions
LayoutSizes ==
    IF card_idx \in DOMAIN session_positions THEN session_sizes
    ELSE Store(session_sizes, card_idx, DefaultSizes(Len(deck[card_idx + 1])))

\* lines 172-183 raise IndexError: a stored list is shorter than the card, or
\* an image is missing
ObjectsRaise ==
    \E i \in DOMAIN deck[card_idx + 1] :
        LookupRaises(deck[card_idx + 1], images, LayoutPositions[card_idx],
                     LayoutSizes[card_idx], i)

\* lines 136-183: the iteration for card_idx ends in the IndexError of 175-179
AdvancedObjectsRaise ==
    /\ pc = "loop"
    /\ card_idx < Len(deck)
    /\ ObjectsRaise
    /\ session_positions' = LayoutPositions
    /\ session_sizes' = LayoutSizes
    /\ pc' = "crashed"
    /\ UNCHANGED <<runVars, cards, card_idx, zip, runs, edits>>
    /\ UNCHANGED <<genVars, drawVars>>

\* lines 136-189: the iteration for card_idx, the canvas returning no json_data
AdvancedNoData ==
    /\ pc = "loop"
    /\ card_idx < Len(deck)
    /\ ~ObjectsRaise
    /\ session_positions' = LayoutPositions
    /\ session_sizes' = LayoutSizes
    /\ card_idx' = card_idx + 1
    /\ UNCHANGED <<runVars, cards, zip, pc, runs, edits>>
    /\ UNCHANGED <<genVars, drawVars>>

\* lines 136-219: the iteration for card_idx, the canvas returning objects
AdvancedData ==
    /\ pc = "loop"
    /\ card_idx < Len(deck)
    /\ ~ObjectsRaise
    /\ card_idx < MaxCanvas
    /\ edits < MaxEdits
    /\ edits' = edits + 1
    /\ \E result \in CanvasResults(CanvasObjects(deck[card_idx + 1], images,
                                                 LayoutPositions[card_idx],
                                                 LayoutSizes[card_idx])) :
          LET new_positions == NewPositions(result.objects)
              new_sizes == NewSizes(result.objects)
          IN  /\ result.has_data
              /\ session_positions' = Store(LayoutPositions, card_idx, new_positions)
              /\ session_sizes' = Store(LayoutSizes, card_idx, new_sizes)
              /\ IF DrawRaises(deck[card_idx + 1], images, new_positions, new_sizes)
                    THEN /\ pc' = "crashed"
                         /\ UNCHANGED <<cards, card_idx>>
                    ELSE /\ cards' = Append(cards,
                                draw_card_with_images(deck[card_idx + 1], images,
                                                      new_positions, new_sizes))
                         /\ card_idx' = card_idx + 1
                         /\ pc' = pc
    /\ UNCHANGED <<runVars, zip, runs>>
    /\ UNCHANGED <<genVars, drawVars>>

\* lines 221-230: the loop is over; the export button is offered if cards
AdvancedExport ==
    /\ pc = "loop"
    /\ card_idx >= Len(deck)
    /\ \E click \in BOOLEAN :
          zip' = IF cards /= <<>> /\ click THEN ZipEntries(cards) ELSE <<>>
    /\ pc' = "done"
    /\ UNCHANGED <<runVars, cards, card_idx, session_positions, session_sizes,
                   runs, edits>>
    /\ UNCHANGED <<genVars, drawVars>>

Next ==
    \/ RunInsufficient
    \/ RunEasy
    \/ RunAdvanced
    \/ AdvancedObjectsRaise
    \/ AdvancedNoData
    \/ AdvancedData
    \/ AdvancedExport

Init == GenIdle /\ DrawIdle /\ AppInit

Spec == Init /\ [][Next]_vars

InitDeck == GenInit /\ DrawIdle /\ AppIdle

SpecDeck == InitDeck /\ [][NextDeck]_vars

InitDraw == GenIdle /\ DrawInit /\ AppIdle

SpecDraw == InitDraw /\ [][NextDraw]_vars

\* ------------------------------------------------- claims on the deck
Returned == gen_pc = "returned"

\* the symbols of a card
Range(s) == {s[x] : x \in DOMAIN s}

\* the deck generate_spot_it_deck(arg_n) returned
ReturnedDeck == gen_cards

\* the cards of d that hold symbol s
CardsWith(d, s) == {c \in DOMAIN d : s \in Range(d[c])}

\* The step-by-step run returns the value of the function written as one expression.
GenAgrees == Returned => gen_cards = generate_spot_it_deck(arg_n)

\* C1: for n = 3, 4, 5, 6, 8 (n - 1 a prime power) every two distinct cards of
\* the returned deck share exactly one symbol id.
C1_PairwiseOneShared ==
    (Returned /\ arg_n \in {3, 4, 5, 6, 8}) =>
        \A a, b \in DOMAIN ReturnedDeck :
            a /= b =>
                Cardinality(Range(ReturnedDeck[a]) \cap Range(ReturnedDeck[b])) = 1

\* C2: for every n from 3 up the returned deck has n*n - n + 1 cards, each card
\* holds n pairwise-distinct ids, every id lies in [0, n*n - n + 1), and every
\* id of that range appears in at least one card.
C2_DeckShape ==
    (Returned /\ arg_n \in 3..MaxN) =>
        /\ Len(ReturnedDeck) = total_symbols_of(arg_n)
        /\ \A c \in DOMAIN ReturnedDeck :
              /\ Len(ReturnedDeck[c]) = arg_n
              /\ Cardinality(Range(ReturnedDeck[c])) = arg_n
              /\ Range(ReturnedDeck[c]) \subseteq 0..(total_symbols_of(arg_n) - 1)
        /\ \A s \in 0..(total_symbols_of(arg_n) - 1) : CardsWith(ReturnedDeck, s) /= {}

\* C2 witness: the deck for n = 4 has been returned: 13 cards of 4 symbols
C2_Witness ==
    /\ Returned
    /\ arg_n = 4
    /\ Len(ReturnedDeck) = 13
    /\ \A c \in DOMAIN ReturnedDeck : Len(ReturnedDeck[c]) = 4

C7_DeckOfThree ==
    (Returned /\ arg_n = 3) =>
        ReturnedDeck = << <<0, 1, 2>>, <<0, 3, 4>>, <<0, 5, 6>>,
                          <<1, 3, 5>>, <<1, 4, 6>>, <<2, 3, 6>>, <<2, 4, 5>> >>

\* C7 witness: the call with n = 3 has returned, its fourth card being the
\* first grid card
C7_Witness == Returned /\ arg_n = 3 /\ Len(ReturnedDeck) = 7 /\ ReturnedDeck[4][1] = 1

\* C9: for every n from 2 up, prime power or not, every symbol id of
\* [0, n*n - n + 1) appears in exactly n cards of the returned deck.
C9_EachSymbolInNCards ==
    (Returned /\ arg_n \in 2..MaxN) =>
        \A s \in 0..(total_symbols_of(arg_n) - 1) :
            Cardinality(CardsWith(ReturnedDeck, s)) = arg_n

\* C9 witness: the deck for n = 7 (order 6, not a prime power) has been
\* returned with its 43 cards
C9_Witness == Returned /\ arg_n = 7 /\ Len(ReturnedDeck) = 43

\* ------------------------------------------------- claims on the drawing
\* the corners of the square box of a paste
Corners(p) == {<<cx, cy>> : cx \in {p.left, p.left + p.size},
                            cy \in {p.top, p.top + p.size}}

\* corner c lies within distance radius of the canvas centre
InCircle(c) ==
    (c[1] - center) * (c[1] - center) + (c[2] - center) * (c[2] - center)
        <= radius * radius

\* the box of a paste lies in [center - radius - slack, center + radius] on both axes
InSquare(p, slack) ==
    /\ p.left >= center - radius - slack
    /\ p.top >= center - radius - slack
    /\ p.left + p.size <= center + radius
    /\ p.top + p.size <= center + radius

\* The step-by-step run pastes what the function written as one expression pastes.
DrawAgrees ==
    draw_pc = "returned" =>
        pasted = draw_card_with_images(card_symbols, draw_images, positions, sizes)

C5_ClampKeepsBoxInside ==
    \A idx \in DOMAIN pasted :
        LET s == sizes[idx]
            x2 == Clamp(positions[idx][1], s)
            y2 == Clamp(positions[idx][2], s)
        IN  s >= 1 =>
                /\ 2 * (center - radius) + s <= x2
                /\ x2 <= 2 * (center + radius) - s
                /\ 2 * (center - radius) + s <= y2
                /\ y2 <= 2 * (center + radius) - s
                /\ InSquare(pasted[idx], 0)

\* ------------------------------------------------- claims on the script
\* the symbol ids an image pastes, in order
SymbolsOf(img) == [idx \in DOMAIN img |-> img[idx].sym]

\* the rendering of deck card i (1-based) in the mode of the run
RenderingOf(i) ==
    IF mode = "Easy" THEN draw_card_default(deck[i], images)
    ELSE draw_card_with_images(deck[i], images, session_positions[i - 1],
                               session_sizes[i - 1])

\* the ZIP holds one entry per deck card, card_<i>.png being deck card i
ExportAligned ==
    /\ Len(zip) = Len(deck)
    /\ \A i \in DOMAIN zip :
          /\ zip[i].name = i
          /\ SymbolsOf(zip[i].img) = deck[i]
          /\ zip[i].img = RenderingOf(i)

\* C3: at export time, in Easy and in Advanced mode, exactly one entry per
\* deck card is written, in deck order: card_<i>.png is the rendering of deck
\* card i.
C3_ExportAligned == zip /= <<>> => ExportAligned

\* The Easy half of C3: an export in Easy mode is aligned with the deck.
EasyExportAligned == (zip /= <<>> /\ mode = "Easy") => ExportAligned

\* C8: in Advanced mode, after any sequence of reruns, the layout stored for
\* each card index c of the deck has exactly len(deck[c]) positions and sizes.
C8_LayoutMatchesCard ==
    (mode = "Advanced" /\ deck /= <<>>) =>
        \A c \in DOMAIN session_positions :
            c < Len(deck) =>
                /\ Len(session_positions[c]) = Len(deck[c + 1])
                /\ Len(session_sizes[c]) = Len(deck[c + 1])

\* A layout stored for a deck of one n is met again, too short, by the deck of
\* a larger n, without any canvas having returned data.
StaleLayoutReached ==
    /\ pc = "crashed"
    /\ edits = 0
    /\ Len(session_positions[0]) < Len(deck[1])

\* C10: a deck is generated and cards are rendered only when at least
\* total_symbols images are uploaded; then len(images) = total_symbols and
\* every symbol id a rendered card looked up is an index of images; with fewer
\* uploads there is no deck and no card.
C10_GateAndLookups ==
    /\ (deck /= <<>> \/ cards /= <<>>) =>
          /\ uploaded_files >= total_symbols_of(slider_n)
          /\ Len(images) = total_symbols_of(slider_n)
    /\ uploaded_files < total_symbols_of(slider_n) => (deck = <<>> /\ cards = <<>>)
    /\ \A c \in DOMAIN cards : \A idx \in DOMAIN cards[c] :
          /\ cards[c][idx].sym \in 0..(Len(images) - 1)
          /\ cards[c][idx].im = images[cards[c][idx].sym + 1]

\* C10 witness: with exactly total_symbols uploads the whole deck has been
\* rendered, the highest symbol id among the lookups
C10_Witness ==
    /\ uploaded_files = total_symbols_of(slider_n)
    /\ deck /= <<>>
    /\ Len(cards) = Len(deck)
    /\ \E c \in DOMAIN cards : \E idx \in DOMAIN cards[c] :
          cards[c][idx].sym = total_symbols_of(slider_n) - 1

====
